---- MODULE Spec2Model ----
(***************************************************************************)
(* Model of the page-analytics pipeline (classes.py, main.py).             *)
(*                                                                         *)
(* A Python str is a sequence of one-character strings, a list is a        *)
(* sequence, a dict is a sequence of <<key, value>> pairs in insertion     *)
(* order with distinct keys.  An optional value (None or x) is <<>> or     *)
(* <<x>>.                                                                  *)
(***************************************************************************)
EXTENDS Naturals, Integers, Sequences, FiniteSets, TLC

VARIABLES
    web,            \* what requests.get answers per url: Unreachable or the <p> texts
    raw_data,       \* RawPage._data per RawPage (None until fetched)
    extractor,      \* the Extractor object: [sentences, words]
    page_contents,  \* the PageContent objects: [sentences, words] each
    call,           \* the last Extractor call: its arguments and how it ended
    i,              \* main.py: index of the url the batch loop is at
    analitics_data, \* main.py: the summary rows
    exit,           \* main.py: "running", "done" or the uncaught exception
    page_content,   \* PageAnalytics.page_content: [url, sentences, words]
    constructed,    \* how PageAnalytics(page_content) ended ("" before it ran)
    analytics_data, \* PageAnalytics.analytics_data
    str_result,     \* how the last __str__ ended, and its output
    json_file       \* what save_to_json last wrote

vars == <<web, raw_data, extractor, page_contents, call, i, analitics_data, exit,
          page_content, constructed, analytics_data, str_result, json_file>>

extractorVars == <<web, raw_data, extractor, page_contents, call>>
batchVars == <<i, analitics_data, exit>>
analyticsVars == <<page_content, constructed, analytics_data, str_result, json_file>>

----------------------------------------------------------------------------
(* Bounds of the model *)

MaxDocSize == 5
NPages == 2
MaxHead == 2
MaxFill == 22
MaxSents == 3

----------------------------------------------------------------------------
(* Python values *)

None == <<>>
Some(x) == <<x>>
Unreachable == <<>>

Whitespace == {" ", "\t", "\n"}
Terminators == {".", "!", "?"}

Min(a, b) == IF a < b THEN a ELSE b

Take(s, n) == SubSeq(s, 1, Min(n, Len(s)))

Range(s) == {s[k] : k \in DOMAIN s}

RECURSIVE Flatten(_)
Flatten(ss) ==
    IF ss = <<>> THEN <<>> ELSE Head(ss) \o Flatten(Tail(ss))

RECURSIVE LStrip(_)
LStrip(s) ==
    IF s # <<>> /\ Head(s) \in Whitespace THEN LStrip(Tail(s)) ELSE s

RECURSIVE RStrip(_)
RStrip(s) ==
    IF s # <<>> /\ s[Len(s)] \in Whitespace
    THEN RStrip(SubSeq(s, 1, Len(s) - 1))
    ELSE s

\* str.strip()
Strip(s) == RStrip(LStrip(s))

\* Index of the first character of s that is in set cs, Len(s) + 1 when none is
FirstIn(s, cs) ==
    IF \E k \in DOMAIN s : s[k] \in cs
    THEN CHOOSE k \in DOMAIN s : s[k] \in cs /\ \A j \in 1..(k - 1) : s[j] \notin cs
    ELSE Len(s) + 1

\* re.compile(r'[.!?]').split(text): the pieces between terminators, empty ones kept
RECURSIVE ReSplit(_)
ReSplit(text) ==
    LET k == FirstIn(text, Terminators)
    IN  IF k > Len(text)
        THEN <<text>>
        ELSE <<SubSeq(text, 1, k - 1)>> \o ReSplit(SubSeq(text, k + 1, Len(text)))

\* str.split(): the maximal runs of non-whitespace characters
RECURSIVE StrSplit(_)
StrSplit(s) ==
    LET t == LStrip(s)
        k == FirstIn(t, Whitespace)
    IN  IF t = <<>>
        THEN <<>>
        ELSE <<SubSeq(t, 1, k - 1)>> \o StrSplit(SubSeq(t, k, Len(t)))

\* [f(x) for x in s if x is kept]
RECURSIVE StripNonEmpty(_)
StripNonEmpty(pieces) ==
    IF pieces = <<>> THEN <<>>
    ELSE (IF Strip(Head(pieces)) # <<>> THEN <<Strip(Head(pieces))>> ELSE <<>>)
         \o StripNonEmpty(Tail(pieces))

----------------------------------------------------------------------------
(* Extractor._fetch_data *)

\* the sentences of one <p> text, were the "if sentence.strip()" left out
ParagraphSentencesUnfiltered(text) ==
    [k \in DOMAIN ReSplit(text) |-> Strip(ReSplit(text)[k])]

\* the sentences of one <p> text
ParagraphSentences(text) == StripNonEmpty(ReSplit(text))

\* self.sentences of Extractor._fetch_data
ExtractedSentences(texts) ==
    Flatten([k \in DOMAIN texts |-> ParagraphSentences(texts[k])])

\* self.words of Extractor._fetch_data
ExtractedWords(sentences) ==
    Flatten([k \in DOMAIN sentences |-> StrSplit(sentences[k])])

FetchData(texts) ==
    LET sentences == ExtractedSentences(texts)
    IN  [sentences |-> Some(sentences), words |-> Some(ExtractedWords(sentences))]

----------------------------------------------------------------------------
(* Inputs *)

Letters == {"a"}
Alphabet == Letters \cup {" "} \cup Terminators

StrsUpTo(cs, n) == UNION {[1..k -> cs] : k \in 0..n}

\* the lists of <p> texts whose sizes (characters plus one per text) sum to at most n
RECURSIVE DocsUpTo(_)
DocsUpTo(n) ==
    IF n = 0 THEN {<<>>}
    ELSE {<<>>} \cup
         UNION {{<<p>> \o d : d \in DocsUpTo(n - Len(p) - 1)} : p \in StrsUpTo(Alphabet, n - 1)}

\* "A. B! C?"
ExampleABC == <<"A", ".", " ", "B", "!", " ", "C", "?">>

\* "The cat sat. The cat ran!" and "Dogs bark."
ExampleCat ==
    <<"T", "h", "e", " ", "c", "a", "t", " ", "s", "a", "t", ".", " ",
      "T", "h", "e", " ", "c", "a", "t", " ", "r", "a", "n", "!">>
ExampleDogs == <<"D", "o", "g", "s", " ", "b", "a", "r", "k", ".">>

ExampleDocs == {<<ExampleABC>>, <<ExampleCat, ExampleDogs>>}

Docs == DocsUpTo(MaxDocSize) \cup ExampleDocs

\* what a url of the Extractor scenarios may answer
PageAnswers ==
    {Unreachable, Some(<<>>), Some(<<ExampleABC>>), Some(<<ExampleDogs>>),
     Some(<<<<"a", " ", "a", "?">>, <<" ">>>>)}

----------------------------------------------------------------------------
(* RawPage and Extractor *)

Pages == DOMAIN web

NoCall == [op |-> "", raw_page |-> 0, page_content |-> 0, outcome |-> ""]

NewPageContent == [sentences |-> None, words |-> None]

\* RawPage.data, read by Extractor._fetch_data: the page is requested only when
\* _data is None; a RequestException becomes UrlError
DataRaises(r) == raw_data[r] = None /\ web[r] = Unreachable

DataAfterRead(r) ==
    IF raw_data[r] = None THEN [raw_data EXCEPT ![r] = web[r]] ELSE raw_data

\* Extractor.extract_sentences(raw_page, page_content)
extract_sentences(r, c) ==
    /\ IF extractor.sentences = None /\ DataRaises(r)
       THEN /\ call' = [op |-> "extract_sentences", raw_page |-> r,
                        page_content |-> c, outcome |-> "UrlError"]
            /\ UNCHANGED <<raw_data, extractor, page_contents>>
       ELSE /\ IF extractor.sentences = None
               THEN /\ raw_data' = DataAfterRead(r)
                    /\ extractor' = FetchData(raw_data'[r][1])
               ELSE UNCHANGED <<raw_data, extractor>>
            /\ page_contents' =
                   [page_contents EXCEPT ![c].sentences = extractor'.sentences]
            /\ call' = [op |-> "extract_sentences", raw_page |-> r,
                        page_content |-> c, outcome |-> "ok"]
    /\ UNCHANGED <<web, batchVars, analyticsVars>>

\* Extractor.extract_words(raw_page, page_content)
extract_words(r, c) ==
    /\ IF extractor.words = None /\ DataRaises(r)
       THEN /\ call' = [op |-> "extract_words", raw_page |-> r,
                        page_content |-> c, outcome |-> "UrlError"]
            /\ UNCHANGED <<raw_data, extractor, page_contents>>
       ELSE /\ IF extractor.words = None
               THEN /\ raw_data' = DataAfterRead(r)
                    /\ extractor' = FetchData(raw_data'[r][1])
               ELSE UNCHANGED <<raw_data, extractor>>
            /\ page_contents' =
                   [page_contents EXCEPT ![c].words = extractor'.words]
            /\ call' = [op |-> "extract_words", raw_page |-> r,
                        page_content |-> c, outcome |-> "ok"]
    /\ UNCHANGED <<web, batchVars, analyticsVars>>

ExtractSentences == \E r \in Pages, c \in Pages : extract_sentences(r, c)

ExtractWords == \E r \in Pages, c \in Pages : extract_words(r, c)

----------------------------------------------------------------------------
(* dict, Counter, sorted, numpy *)

DictKeys(d) == [k \in DOMAIN d |-> d[k][1]]

DictHas(d, key) == \E k \in DOMAIN d : d[k][1] = key

DictGet(d, key) == d[CHOOSE k \in DOMAIN d : d[k][1] = key][2]

\* d[key] = value: a new key goes last, a known key keeps its place
DictSet(d, key, value) ==
    IF DictHas(d, key)
    THEN [k \in DOMAIN d |-> IF d[k][1] = key THEN <<key, value>> ELSE d[k]]
    ELSE Append(d, <<key, value>>)

\* dict(pairs)
RECURSIVE DictUpdate(_, _)
DictUpdate(d, pairs) ==
    IF pairs = <<>> THEN d
    ELSE DictUpdate(DictSet(d, Head(pairs)[1], Head(pairs)[2]), Tail(pairs))

DictOf(pairs) == DictUpdate(<<>>, pairs)

\* Counter(words): counts keyed in first-seen order
RECURSIVE CounterUpdate(_, _)
CounterUpdate(d, words) ==
    IF words = <<>> THEN d
    ELSE CounterUpdate(
             DictSet(d, Head(words),
                     IF DictHas(d, Head(words)) THEN DictGet(d, Head(words)) + 1 ELSE 1),
             Tail(words))

Counter(words) == CounterUpdate(<<>>, words)

\* keyed is a sequence of <<key, item>>; x goes after the entries whose key is
\* not smaller, so equal keys keep their order (Python's sort is stable, also
\* with reverse=True)
RECURSIVE InsertDescending(_, _)
InsertDescending(x, keyed) ==
    IF keyed = <<>> THEN <<x>>
    ELSE IF Head(keyed)[1] >= x[1]
         THEN <<Head(keyed)>> \o InsertDescending(x, Tail(keyed))
         ELSE <<x>> \o keyed

RECURSIVE SortDescending(_)
SortDescending(keyed) ==
    IF keyed = <<>> THEN <<>>
    ELSE InsertDescending(keyed[Len(keyed)],
                          SortDescending(SubSeq(keyed, 1, Len(keyed) - 1)))

Items(keyed) == [k \in DOMAIN keyed |-> keyed[k][2]]

\* sorted(pairs, key=lambda x: x[1], reverse=True)
SortedByCount(pairs) ==
    Items(SortDescending([k \in DOMAIN pairs |-> <<pairs[k][2], pairs[k]>>]))

\* sorted(words, key=len, reverse=True)
SortedByLen(words) ==
    Items(SortDescending([k \in DOMAIN words |-> <<Len(words[k]), words[k]>>]))

\* Counter.most_common(n): heapq.nlargest(n, items, key=count), which is
\* sorted(items, key=count, reverse=True)[:n]
MostCommon(counter, n) == Take(SortedByCount(counter), n)

RECURSIVE InsertAscending(_, _)
InsertAscending(x, s) ==
    IF s = <<>> THEN <<x>>
    ELSE IF Head(s) <= x
         THEN <<Head(s)>> \o InsertAscending(x, Tail(s))
         ELSE <<x>> \o s

RECURSIVE SortAscending(_)
SortAscending(s) ==
    IF s = <<>> THEN <<>> ELSE InsertAscending(Head(s), SortAscending(Tail(s)))

RECURSIVE Sum(_)
Sum(s) == IF s = <<>> THEN 0 ELSE Head(s) + Sum(Tail(s))

\* a numpy.float64 is the fraction num/den; nan has den = 0
Float(num, den) == [type |-> "float64", num |-> num, den |-> den]
NaN == Float(0, 0)
Str(chars) == [type |-> "str", chars |-> chars]

\* np.mean(np.array(s)): nan (and a RuntimeWarning) for an empty array
Mean(s) == IF s = <<>> THEN NaN ELSE Float(Sum(s), Len(s))

\* np.median(np.array(s)): nan for an empty array
Median(s) ==
    LET t == SortAscending(s)
        n == Len(s)
    IN  IF n = 0 THEN NaN
        ELSE IF n % 2 = 1 THEN Float(t[(n + 1) \div 2], 1)
        ELSE Float(t[n \div 2] + t[n \div 2 + 1], 2)

UpperCase ==
    <<"A", "B", "C", "D", "E", "F", "G", "H", "I", "J", "K", "L", "M",
      "N", "O", "P", "Q", "R", "S", "T", "U", "V", "W", "X", "Y", "Z">>
LowerCase ==
    <<"a", "b", "c", "d", "e", "f", "g", "h", "i", "j", "k", "l", "m",
      "n", "o", "p", "q", "r", "s", "t", "u", "v", "w", "x", "y", "z">>

LowerChar(c) ==
    IF \E k \in DOMAIN UpperCase : UpperCase[k] = c
    THEN LowerCase[CHOOSE k \in DOMAIN UpperCase : UpperCase[k] = c]
    ELSE c

\* str.lower()
Lower(word) == [k \in DOMAIN word |-> LowerChar(word[k])]

----------------------------------------------------------------------------
(* PageAnalytics.make_analytics *)

MostCommonCount == 20
Top10Words == 10
Top10Filtered == 10
Top10Longest == 10

stopwords ==
    {<<"a", "n", "d">>, <<"o", "r">>, <<"b", "u", "t">>, <<"i", "n">>, <<"o", "n">>,
     <<"a", "t">>, <<"w", "i", "t", "h">>, <<"f", "o", "r">>, <<"t", "h", "e">>, <<"a">>}

\* [x for x in s if Keep(x)]
RECURSIVE SelectNonStop(_)
SelectNonStop(pairs) ==
    IF pairs = <<>> THEN <<>>
    ELSE (IF Lower(Head(pairs)[1]) \notin stopwords THEN <<Head(pairs)>> ELSE <<>>)
         \o SelectNonStop(Tail(pairs))

\* word_freq_top20
WordFreqTop20(words) == DictOf(MostCommon(Counter(words), MostCommonCount))

\* filtered_word_freq, were word compared instead of word.lower()
FilteredWordFreqCaseSensitive(word_freq_top20) ==
    LET RECURSIVE Select(_)
        Select(pairs) ==
            IF pairs = <<>> THEN <<>>
            ELSE (IF Head(pairs)[1] \notin stopwords THEN <<Head(pairs)>> ELSE <<>>)
                 \o Select(Tail(pairs))
    IN  Select(word_freq_top20)

\* filtered_word_freq
FilteredWordFreq(word_freq_top20) == SelectNonStop(word_freq_top20)

\* top_10_word_freq, were the slice one too long
Top10WordFreqLongSlice(word_freq_top20) ==
    DictOf(Take(SortedByCount(word_freq_top20), Top10Words + 1))

\* top_10_word_freq
Top10WordFreq(word_freq_top20) ==
    DictOf(Take(SortedByCount(word_freq_top20), Top10Words))

\* top_10_filtered_word_freq
Top10FilteredWordFreq(filtered_word_freq) ==
    DictOf(Take(SortedByCount(filtered_word_freq), Top10Filtered))

WordLengths(words) == [k \in DOMAIN words |-> Len(words[k])]

\* longest_words_dict, were the words not sorted by length
LongestWordsDictUnsorted(words) ==
    LET longest_words == Take(words, Top10Longest)
    IN  DictOf([k \in DOMAIN longest_words |->
                   <<longest_words[k], Len(longest_words[k])>>])

\* longest_words_dict
LongestWordsDict(words) ==
    LET longest_words == Take(SortedByLen(words), Top10Longest)
    IN  DictOf([k \in DOMAIN longest_words |->
                   <<longest_words[k], Len(longest_words[k])>>])

\* len(sentence.split())
SentenceLength(sentence) == Len(StrSplit(sentence))

SentenceLengths(sentences) ==
    [k \in DOMAIN sentences |-> SentenceLength(sentences[k])]

\* max(iterable, key=...): the first item whose key is the largest
RECURSIVE MaxSentence(_, _)
MaxSentence(best, rest) ==
    IF rest = <<>> THEN best
    ELSE MaxSentence(IF SentenceLength(Head(rest)) > SentenceLength(best)
                     THEN Head(rest) ELSE best,
                     Tail(rest))

\* longest_sentence, were the last of the longest taken
LastLongestSentence(sentences) ==
    LET RECURSIVE MaxLast(_, _)
        MaxLast(best, rest) ==
            IF rest = <<>> THEN best
            ELSE MaxLast(IF SentenceLength(Head(rest)) >= SentenceLength(best)
                         THEN Head(rest) ELSE best,
                         Tail(rest))
    IN  MaxLast(Head(sentences), Tail(sentences))

\* longest_sentence, of a non-empty list
LongestSentence(sentences) == MaxSentence(Head(sentences), Tail(sentences))

WithField(rec, name, value) ==
    [k \in DOMAIN rec \cup {name} |-> IF k = name THEN value ELSE rec[k]]

\* make_analytics: the exception it raises ("" when none) and analytics_data as
\* it leaves it.  max() of an empty list raises ValueError; np.mean and
\* np.median of an empty array only warn and give nan.
MakeAnalytics(content) ==
    LET words == content.words
        sentences == content.sentences
        word_freq_top20 == WordFreqTop20(words)
        before_max ==
            [top_10_words |-> Top10WordFreq(word_freq_top20),
             top_10_words_filtered |->
                 Top10FilteredWordFreq(FilteredWordFreq(word_freq_top20)),
             average_word_length |-> Mean(WordLengths(words)),
             median_word_length |-> Median(WordLengths(words)),
             top_10_longest_words |-> LongestWordsDict(words),
             average_sentence_length |-> Mean(SentenceLengths(sentences)),
             median_sentence_length |-> Median(SentenceLengths(sentences))]
    IN  IF sentences = <<>>
        THEN [raised |-> "ValueError", analytics_data |-> before_max]
        ELSE [raised |-> "",
              analytics_data |->
                  WithField(before_max, "longest_sentence",
                            Str(LongestSentence(sentences)))]

\* PageAnalytics(page_content)
Construct ==
    /\ constructed = ""
    /\ LET made == MakeAnalytics(page_content)
       IN  /\ constructed' = (IF made.raised = "" THEN "ok" ELSE made.raised)
           /\ analytics_data' = made.analytics_data
    /\ UNCHANGED <<page_content, str_result, json_file, extractorVars, batchVars>>

\* format(value, ".2f"): the number in hundredths (a tie goes to the even
\* neighbour: a tie of a model fraction has a power of two as denominator, so
\* the double holds it exactly); ValueError for a str
Fixed2(value) ==
    IF value.type # "float64" THEN [raised |-> "ValueError", text |-> "", hundredths |-> 0]
    ELSE IF value.den = 0 THEN [raised |-> "", text |-> "nan", hundredths |-> 0]
    ELSE LET q == (value.num * 100) \div value.den
             r == (value.num * 100) % value.den
         IN  [raised |-> "", text |-> "fixed",
              hundredths |-> IF 2 * r > value.den \/ (2 * r = value.den /\ q % 2 = 1)
                             THEN q + 1 ELSE q]

\* PageAnalytics.__str__: the formatted fields in the order of the output lines
StrFields ==
    <<"average_word_length", "median_word_length", "average_sentence_length",
      "median_sentence_length", "longest_sentence">>

PageAnalyticsStr(data) ==
    LET formatted == [k \in DOMAIN StrFields |-> Fixed2(data[StrFields[k]])]
    IN  IF \E k \in DOMAIN formatted : formatted[k].raised # ""
        THEN [called |-> TRUE, raised |-> "ValueError", output |-> None]
        ELSE [called |-> TRUE, raised |-> "",
              output |-> Some([url |-> page_content.url,
                               top_10_words |-> data.top_10_words,
                               top_10_words_filtered |-> data.top_10_words_filtered,
                               top_10_longest_words |-> data.top_10_longest_words,
                               formatted |-> formatted])]

NotCalled == [called |-> FALSE, raised |-> "", output |-> None]

\* str(page_analytics)
StrCall ==
    /\ constructed = "ok"
    /\ str_result' = PageAnalyticsStr(analytics_data)
    /\ UNCHANGED <<page_content, constructed, analytics_data, json_file,
                   extractorVars, batchVars>>

\* page_analytics.save_to_json(filename)
SaveToJson ==
    /\ constructed = "ok"
    /\ analytics_data' = WithField(analytics_data, "url", page_content.url)
    /\ json_file' = Some(analytics_data')
    /\ UNCHANGED <<page_content, constructed, str_result, extractorVars, batchVars>>

----------------------------------------------------------------------------
(* main.py *)

NUrls == 3

\* max(d, key=d.get): the first key whose value is the largest
RECURSIVE MaxKey(_, _)
MaxKey(best, rest) ==
    IF rest = <<>> THEN best[1]
    ELSE MaxKey(IF Head(rest)[2] > best[2] THEN Head(rest) ELSE best, Tail(rest))

\* analytics_dict of one url
AnalyticsDict(url, content, data) ==
    [URL |-> url,
     LongestSentence |-> data.longest_sentence.chars,
     LongestWord |-> MaxKey(Head(data.top_10_longest_words),
                            Tail(data.top_10_longest_words)),
     NumberOfSentences |-> Len(content.sentences),
     NumberOfWords |-> Len(content.words)]

\* One pass of "for url in urls": RawPage(url), PageContent(url), Extractor(),
\* both extractions, PageAnalytics(page_content), the row appended.  Nothing in
\* main.py catches an exception: the first one raised ends the program.
LoopBody ==
    /\ exit = "running"
    /\ i <= NUrls
    /\ IF web[i] = Unreachable
       THEN /\ exit' = "UrlError"
            /\ UNCHANGED <<i, analitics_data>>
       ELSE LET fetched == FetchData(web[i][1])
                content == [url |-> i, sentences |-> fetched.sentences[1],
                            words |-> fetched.words[1]]
                made == MakeAnalytics(content)
            IN  IF made.raised # ""
                THEN /\ exit' = made.raised
                     /\ UNCHANGED <<i, analitics_data>>
                ELSE /\ analitics_data' =
                            Append(analitics_data,
                                   AnalyticsDict(i, content, made.analytics_data))
                     /\ i' = i + 1
                     /\ exit' = exit
    /\ UNCHANGED <<extractorVars, analyticsVars>>

\* after the loop: pd.DataFrame(analitics_data) is printed
PrintFrame ==
    /\ exit = "running"
    /\ i > NUrls
    /\ exit' = "done"
    /\ UNCHANGED <<i, analitics_data, extractorVars, analyticsVars>>

----------------------------------------------------------------------------
(* Inputs of PageAnalytics *)

\* the n-th word over "b", "c": b, c, bb, bc, cb, cc, bbb, ...
RECURSIVE NumWord(_)
NumWord(n) ==
    IF n = 0 THEN <<>>
    ELSE NumWord((n - 1) \div 2) \o <<IF n % 2 = 1 THEN "b" ELSE "c">>

Fill(n) == [k \in 1..n |-> NumWord(k)]

HeadWords == {<<"a">>, <<"A">>, <<"c">>, <<"T", "h", "e", "b">>}

\* word lists: up to MaxHead words of HeadWords before or after the first n
\* words over "b", "c", n up to MaxFill
WordInputs ==
    UNION {{h \o Fill(n), Fill(n) \o h} :
               h \in StrsUpTo(HeadWords, MaxHead), n \in 0..MaxFill}

InputSentences ==
    {<<"a">>, <<"b", " ", "a">>, <<"a", " ", " ", "b">>, <<"c", " ", "b", " ", "a">>}

SentenceInputs == StrsUpTo(InputSentences, MaxSents)

\* A PageContent as the Extractor fills it (words are the sentences' words), or
\* as set_words / set_sentences may: one of the two lists empty
ContentInputs ==
    {[url |-> "u", sentences |-> w, words |-> w] : w \in WordInputs}
    \cup {[url |-> "u", sentences |-> s, words |-> ExtractedWords(s)] :
              s \in SentenceInputs}
    \cup {[url |-> "u", sentences |-> s, words |-> <<>>] : s \in SentenceInputs}
    \cup {[url |-> "u", sentences |-> <<>>, words |-> w] :
              w \in StrsUpTo(HeadWords, 1)}

----------------------------------------------------------------------------
(* Specifications *)

ExtractorIdle ==
    /\ raw_data = <<>>
    /\ extractor = [sentences |-> None, words |-> None]
    /\ page_contents = <<>>
    /\ call = NoCall

BatchIdle ==
    /\ i = 1
    /\ analitics_data = <<>>
    /\ exit = "running"

AnalyticsIdle ==
    /\ page_content = [url |-> "u", sentences |-> <<>>, words |-> <<>>]
    /\ constructed = ""
    /\ analytics_data = <<>>
    /\ str_result = NotCalled
    /\ json_file = None

\* One PageAnalytics over one PageContent
Init ==
    /\ page_content \in ContentInputs
    /\ constructed = ""
    /\ analytics_data = <<>>
    /\ str_result = NotCalled
    /\ json_file = None
    /\ web = <<>>
    /\ ExtractorIdle
    /\ BatchIdle

Next == Construct \/ StrCall \/ SaveToJson

Spec == Init /\ [][Next]_vars

\* One Extractor, NPages RawPages and as many PageContents
InitExtractor ==
    /\ web \in [1..NPages -> PageAnswers]
    /\ raw_data = [r \in 1..NPages |-> None]
    /\ extractor = [sentences |-> None, words |-> None]
    /\ page_contents = [c \in 1..NPages |-> NewPageContent]
    /\ call = NoCall
    /\ BatchIdle
    /\ AnalyticsIdle

NextExtractor == ExtractSentences \/ ExtractWords

SpecExtractor == InitExtractor /\ [][NextExtractor]_vars

\* One Extractor on one RawPage, unreachable or with any of Docs as paragraphs
InitSegmenter ==
    /\ web \in [{1} -> {Some(d) : d \in Docs} \cup {Unreachable}]
    /\ raw_data = [r \in {1} |-> None]
    /\ extractor = [sentences |-> None, words |-> None]
    /\ page_contents = [c \in {1} |-> NewPageContent]
    /\ call = NoCall
    /\ BatchIdle
    /\ AnalyticsIdle

SpecSegmenter == InitSegmenter /\ [][NextExtractor]_vars

\* main.py over NUrls urls
InitBatch ==
    /\ web \in [1..NUrls -> PageAnswers]
    /\ ExtractorIdle
    /\ BatchIdle
    /\ AnalyticsIdle

NextBatch == LoopBody \/ PrintFrame

SpecBatch == InitBatch /\ [][NextBatch]_vars

----------------------------------------------------------------------------
(* What the claims speak of, stated without the operations above *)

\* how often each word occurs in words
Occurrences(words) ==
    [w \in Range(words) |-> Cardinality({k \in DOMAIN words : words[k] = w})]

\* where each word occurs first
FirstSeen(words) ==
    [w \in Range(words) |->
        CHOOSE k \in DOMAIN words : words[k] = w /\ \A j \in 1..(k - 1) : words[j] # w]

\* the place of each word in the frequency ranking of words: v is ranked before
\* w when it is more frequent, or as frequent and seen first.  (A value bound by
\* a quantifier over a singleton is computed once.)
FrequencyRank(words) ==
    CHOOSE rank \in
        {[w \in Range(words) |->
            1 + Cardinality({v \in Range(words) :
                                \/ occurrences[v] > occurrences[w]
                                \/ /\ occurrences[v] = occurrences[w]
                                   /\ first[v] < first[w]})] :
            occurrences \in {Occurrences(words)}, first \in {FirstSeen(words)}} : TRUE

\* the place of words[p] among the words by descending length, ties in list order
LengthRank(words, p) ==
    1 + Cardinality({q \in DOMAIN words :
                        \/ Len(words[q]) > Len(words[p])
                        \/ Len(words[q]) = Len(words[p]) /\ q < p})

\* the number of maximal runs of non-whitespace characters of a sentence
WordCount(sentence) ==
    Cardinality({k \in DOMAIN sentence :
                    /\ sentence[k] \notin Whitespace
                    /\ k = 1 \/ sentence[k - 1] \in Whitespace})

\* the pieces <<t, a, b>> of texts: text t's characters a..b hold no terminator,
\* are bounded by terminators or the text's ends, and are not all whitespace
Pieces(texts) ==
    {x \in UNION {{<<t, a, b>> : a \in 1..Len(texts[t]), b \in 1..Len(texts[t])} :
                      t \in DOMAIN texts} :
        LET text == texts[x[1]]
        IN  /\ x[2] <= x[3]
            /\ x[2] = 1 \/ text[x[2] - 1] \in Terminators
            /\ x[3] = Len(text) \/ text[x[3] + 1] \in Terminators
            /\ \A k \in x[2]..x[3] : text[k] \notin Terminators
            /\ \E k \in x[2]..x[3] : text[k] \notin Whitespace}

\* a piece without the whitespace around it
Trimmed(texts, x) ==
    LET text == texts[x[1]]
        inked == {k \in x[2]..x[3] : text[k] \notin Whitespace}
        first == CHOOSE k \in inked : \A j \in inked : k <= j
        last == CHOOSE k \in inked : \A j \in inked : j <= k
    IN  SubSeq(text, first, last)

\* the place of piece x in paragraph order, then in the order within the paragraph
PieceRank(texts, x) ==
    1 + Cardinality({y \in Pieces(texts) :
                        y[1] < x[1] \/ (y[1] = x[1] /\ y[2] < x[2])})

----------------------------------------------------------------------------
(* Claims *)

\* C1: building the analytics of a PageContent whose word list or sentence list
\* is empty ends in EmptyContentError: in no other failure, and not in a
\* completed report.
C1_EmptyContentRaisesEmptyContentError ==
    (constructed # "" /\ (page_content.words = <<>> \/ page_content.sentences = <<>>))
        => constructed = "EmptyContentError"

\* C2: when acquiring one document of the batch fails with UrlError, every
\* other document that can be acquired and has sentences still gets its row.
C2_BatchContinuesAfterUrlError ==
    exit = "UrlError" =>
        \A u \in 1..NUrls :
            (u # i /\ web[u] # Unreachable /\ ExtractedSentences(web[u][1]) # <<>>)
                => \E k \in DOMAIN analitics_data : analitics_data[k].URL = u

\* C3: the PageContent passed to extract_sentences (extract_words) receives the
\* sentences (words) of the RawPage passed to that same call.
C3_ContentGetsSentencesOfItsCall ==
    (call.outcome = "ok" /\ web[call.raw_page] # Unreachable) =>
        LET sentences == ExtractedSentences(web[call.raw_page][1])
        IN  /\ call.op = "extract_sentences" =>
                   page_contents[call.page_content].sentences = Some(sentences)
            /\ call.op = "extract_words" =>
                   page_contents[call.page_content].words =
                       Some(ExtractedWords(sentences))

\* C4: once a report is constructed, no operation on it changes its fields or
\* their values.
C4_ReportNeverChanges ==
    [][constructed = "ok" => analytics_data' = analytics_data]_vars

\* C5: rendering a constructed report to text completes without error and
\* gives an output.
C5_StrCompletes ==
    str_result.called => (str_result.raised = "" /\ str_result.output # None)

\* C6: the extracted sentences are exactly the trimmed, non-blank pieces between
\* terminators of each paragraph, in paragraph order then in the order within
\* the paragraph; so none is empty, starts or ends with whitespace, or holds a
\* terminator, no paragraphs give no sentences, and "A. B! C?" gives A, B, C.
C6_SentencesAreTrimmedPieces ==
    (extractor.sentences # None /\ raw_data[1] # None) =>
        LET texts == raw_data[1][1]
            sentences == extractor.sentences[1]
        IN  /\ Len(sentences) = Cardinality(Pieces(texts))
            /\ \A x \in Pieces(texts) :
                   sentences[PieceRank(texts, x)] = Trimmed(texts, x)
            /\ \A k \in DOMAIN sentences :
                   /\ sentences[k] # <<>>
                   /\ Head(sentences[k]) \notin Whitespace
                   /\ sentences[k][Len(sentences[k])] \notin Whitespace
                   /\ \A j \in DOMAIN sentences[k] : sentences[k][j] \notin Terminators
            /\ texts = <<>> => sentences = <<>>
            /\ texts = <<ExampleABC>> => sentences = << <<"A">>, <<"B">>, <<"C">> >>

C6_Witness ==
    /\ extractor.sentences # None
    /\ raw_data[1] # None
    /\ Len(raw_data[1][1]) = 2
    /\ Len(extractor.sentences[1]) = 3
    /\ \E t \in DOMAIN raw_data[1][1] :
           \E k \in DOMAIN raw_data[1][1][t] : raw_data[1][1][t][k] \in Whitespace
    /\ page_contents[1].sentences = extractor.sentences

\* C7: every entry of top_10_words_filtered is one of the 20 first words of the
\* frequency ranking with its count, its lowercase form is no stopword, there
\* are at most 10 entries, and when the 20 first hold fewer than 10
\* non-stopwords all of them are entries.
C7_FilteredTop10 ==
    constructed # "" =>
        LET words == page_content.words
            filtered == analytics_data.top_10_words_filtered
        IN  \A rank \in {FrequencyRank(words)}, occurrences \in {Occurrences(words)} :
            \A nonstop \in {{w \in Range(words) :
                               rank[w] <= MostCommonCount /\ Lower(w) \notin stopwords}} :
                /\ \A k \in DOMAIN filtered :
                       /\ filtered[k][1] \in Range(words)
                       /\ rank[filtered[k][1]] <= MostCommonCount
                       /\ filtered[k][2] = occurrences[filtered[k][1]]
                       /\ Lower(filtered[k][1]) \notin stopwords
                       /\ \A j \in DOMAIN filtered :
                              filtered[j][1] = filtered[k][1] => j = k
                /\ Len(filtered) <= Top10Filtered
                /\ Cardinality(nonstop) < Top10Filtered =>
                       nonstop = Range(DictKeys(filtered))

C7_Witness ==
    /\ constructed = "ok"
    /\ Len(analytics_data.top_10_words_filtered) = Top10Filtered
    /\ Cardinality(Range(page_content.words)) > MostCommonCount
    /\ \E w \in Range(page_content.words) :
           /\ w \notin stopwords
           /\ Lower(w) \in stopwords
           /\ FrequencyRank(page_content.words)[w] <= Top10Filtered

\* C8: longest_sentence is the sentence with the most words, the first of them
\* in the list when several have that many.
C8_LongestSentenceIsFirstMaximum ==
    constructed = "ok" =>
        LET sentences == page_content.sentences
        IN  \E p \in DOMAIN sentences :
                /\ sentences[p] = analytics_data.longest_sentence.chars
                /\ \A q \in DOMAIN sentences :
                       WordCount(sentences[q]) <= WordCount(sentences[p])
                /\ \A q \in 1..(p - 1) :
                       WordCount(sentences[q]) < WordCount(sentences[p])

C8_Witness ==
    /\ constructed = "ok"
    /\ \E p, q \in DOMAIN page_content.sentences :
           /\ 1 < p /\ p < q
           /\ page_content.sentences[p] # page_content.sentences[q]
           /\ WordCount(page_content.sentences[p]) = WordCount(page_content.sentences[q])
           /\ WordCount(page_content.sentences[1]) < WordCount(page_content.sentences[p])
           /\ page_content.sentences[p] = analytics_data.longest_sentence.chars

\* C9: top_10_words holds the min(10, number of distinct words) first words of
\* the frequency ranking (descending count, equal counts in first-seen order),
\* in that order and with their counts; all are among the 20 first.
C9_Top10IsHeadOfRanking ==
    constructed # "" =>
        LET words == page_content.words
            top == analytics_data.top_10_words
        IN  \A rank \in {FrequencyRank(words)}, occurrences \in {Occurrences(words)} :
                /\ Len(top) = Min(Top10Words, Cardinality(Range(words)))
                /\ \A k \in DOMAIN top :
                       /\ top[k][1] \in Range(words)
                       /\ rank[top[k][1]] = k
                       /\ top[k][2] = occurrences[top[k][1]]
                       /\ k <= MostCommonCount

C9_Witness ==
    /\ constructed = "ok"
    /\ Cardinality(Range(page_content.words)) > MostCommonCount
    /\ analytics_data.top_10_words[1][2] > analytics_data.top_10_words[2][2]
    /\ analytics_data.top_10_words[2][2] = analytics_data.top_10_words[3][2]
    /\ FirstSeen(page_content.words)[analytics_data.top_10_words[1][1]] > MostCommonCount

\* C10: top_10_longest_words has at most min(10, number of distinct words)
\* entries, each value is the length of its key, and each key is one of the 10
\* first words of the list by descending length, ties in list order.
C10_LongestWords ==
    constructed # "" =>
        LET words == page_content.words
            longest == analytics_data.top_10_longest_words
        IN  /\ Len(longest) <= Min(Top10Longest, Cardinality(Range(words)))
            /\ \A k \in DOMAIN longest :
                   /\ longest[k][2] = Len(longest[k][1])
                   /\ \E p \in DOMAIN words :
                          /\ words[p] = longest[k][1]
                          /\ LengthRank(words, p) <= Top10Longest
                   /\ \A j \in DOMAIN longest : longest[j][1] = longest[k][1] => j = k

C10_Witness ==
    /\ constructed = "ok"
    /\ Len(page_content.words) > Top10Longest + 1
    /\ Len(analytics_data.top_10_longest_words) < Top10Longest
    /\ \E p, q \in DOMAIN page_content.words :
           /\ p < q
           /\ page_content.words[p] = page_content.words[q]
           /\ LengthRank(page_content.words, q) <= Top10Longest

====
